---- MODULE Spec2Model ----
(***************************************************************************)
(* jpegger: traversal -> hash workers -> commit/link pipeline over a       *)
(* persistent bolt store (buckets ContentHash and SourcePath), modelled    *)
(* from main.go.  One process runs at a time; the store and the output     *)
(* tree survive from one run to the next.                                  *)
(***************************************************************************)
EXTENDS Integers, Sequences, FiniteSets, Bags, TLC

\* ---------------------------------------------------------------- constants
HashWorkers == 3

\* placement states: NoFile is the nil value a missing row reads as
NoFile == 0
DiscoveredFile == 1
CopiedFile == 2

\* the nil Key of a FileStamp that has not been hashed
NilKey == 0

Extensions == {".mov", ".jpg", ".jpeg", ".avi", ".mp4"}
SkipPatterns == {".AppleDouble"}

States == {NoFile, DiscoveredFile, CopiedFile}

\* ---------------------------------------------------------------- the input
\* The input tree the runs are made over (flag.Arg(0)).  A path is the
\* sequence of its elements; ReadDir lists a directory sorted by name.
input == <<"in">>

Entry(name, isDir) == [Name |-> name, IsDir |-> isDir]

Tree ==
    (<<"in">> :> << Entry("a.jpg", FALSE), Entry("sub", TRUE), Entry("x.txt", FALSE) >>)
    @@ (<<"in", "sub">> :> << Entry("a.jpg", FALSE), Entry("b.JPG", FALSE) >>)

\* the bytes of each regular file, as the SHA-256 digest they hash to: the
\* two a.jpg differ in content, in/sub/b.JPG is a copy of in/a.jpg
Content ==
    (<<"in", "a.jpg">> :> 17) @@ (<<"in", "sub", "a.jpg">> :> 33)
    @@ (<<"in", "sub", "b.JPG">> :> 17) @@ (<<"in", "x.txt">> :> 49)

\* the date the callback resolves for each file (EXIF or ModTime)
DateOf ==
    (<<"in", "a.jpg">> :> [Year |-> 2019, Month |-> 7])
    @@ (<<"in", "sub", "a.jpg">> :> [Year |-> 2019, Month |-> 7])
    @@ (<<"in", "sub", "b.JPG">> :> [Year |-> 2019, Month |-> 7])
    @@ (<<"in", "x.txt">> :> [Year |-> 2020, Month |-> 1])

Paths == DOMAIN Content
Keys == {Content[p] : p \in Paths}

\* the lowercased suffix of each file name
LowerExt ==
    [n \in {"a.jpg", "b.JPG", "x.txt"} |->
        CASE n = "a.jpg" -> ".jpg" [] n = "b.JPG" -> ".jpg" [] OTHER -> ".txt"]

Base(p) == p[Len(p)]

ValidName(p) ==
    /\ \A i \in 1..Len(p) : p[i] \notin SkipPatterns
    /\ LowerExt[Base(p)] \in Extensions

\* ---------------------------------------------------------------- state
VARIABLES
    pc,              \* the process: "idle", "init", "run", "done", "fatal", "killed"
    fatal,           \* the message of the log.Fatal / panic that ended the run
    DeleteCopyState, \* the --delete-copy-state flag of the current run
    buckets,         \* the buckets that exist in the database file
    ContentHash,     \* bucket ContentHash: key -> placement state
    SourcePath,      \* bucket SourcePath: path -> key (NilKey: no entry)
    outTree,         \* the links in the output tree: [dest, src]
    walk,            \* the WithFiles call stack: frames [path, i]
    stampsClosed,    \* close(stamps) has happened
    workers,         \* the hash workers: a bag of [pc, stamp], one per goroutine
    err,             \* main's err variable, which the workers assign
    hashedClosed,    \* close(hashedStamps) has happened
    commit,          \* main's loop: [pc, result, transitioned]
    log,             \* the lines this run logged: [skipped, finished]
    \* history
    created,         \* per key, the links created since the last reset
    startHash,       \* ContentHash as the run found it after its bucket setup
    walkErr,         \* this run's traversal met a ReadDir or callback error
    prevClean,       \* the run before this one ended normally with no error
    emitted,         \* bag of the paths this run's traversal sent on stamps
    received,        \* bag of the paths main received from hashedStamps
    hashed,          \* bag of the paths FileKey opened and digested this run
    startCache,      \* SourcePath as the run found it after its bucket setup
    cas              \* a CommitState call made on its own: arguments and result

vars == <<pc, fatal, DeleteCopyState, buckets, ContentHash, SourcePath, outTree,
          walk, stampsClosed, workers, err, hashedClosed, commit, log,
          created, startHash, walkErr, prevClean, emitted, received, hashed,
          startCache, cas>>

NoStamp == [Path |-> <<>>, Time |-> [Year |-> 0, Month |-> 0], Key |-> NilKey]

\* a hash worker before it has received a stamp
IdleWorker == [pc |-> "recv", stamp |-> NoStamp]

\* the HashWorkers goroutines main starts (they carry no identity)
IdleWorkers == IdleWorker :> HashWorkers

\* worker w moves on to state t
Move(w, t) == (workers (-) SetToBag({w})) (+) SetToBag({t})
IdleCommit == [pc |-> "recv", result |-> NoStamp, transitioned |-> FALSE]
EmptyLog == [skipped |-> {}, finished |-> {}]
NoCall == [called |-> FALSE]

\* ---------------------------------------------------------------- functions
\* FileKey: the cached key if the path cache has one, else the digest of the
\* file; openOk is whether os.Open and io.Copy succeed
FileKeyNoCache(sp, path, openOk) ==
    IF ~openOk THEN [Key |-> NilKey, err |-> TRUE, hashed |-> FALSE]
    ELSE [Key |-> Content[path], err |-> FALSE, hashed |-> TRUE]

FileKey(sp, path, openOk) ==
    IF sp[path] # NilKey THEN [Key |-> sp[path], err |-> FALSE, hashed |-> FALSE]
    ELSE IF ~openOk THEN [Key |-> NilKey, err |-> TRUE, hashed |-> FALSE]
    ELSE [Key |-> Content[path], err |-> FALSE, hashed |-> TRUE]

\* CommitState: one bolt Update transaction.  It puts path -> key in
\* SourcePath, then moves key from reqPrevState to reqNextState when the
\* stored state is reqPrevState.  An error (Put of an empty key) rolls the
\* whole transaction back.
CommitStateNoCompare(ch, sp, path, key, reqPrevState, reqNextState) ==
    [transitioned |-> TRUE, rErr |-> FALSE,
     ContentHash |-> [ch EXCEPT ![key] = reqNextState],
     SourcePath |-> [sp EXCEPT ![path] = key]]

CommitStateNoWrite(ch, sp, path, key, reqPrevState, reqNextState) ==
    LET prevState == IF key \in DOMAIN ch THEN ch[key] ELSE NoFile
    IN  [transitioned |-> (prevState = reqPrevState /\ key # NilKey),
         rErr |-> (prevState = reqPrevState /\ key = NilKey),
         ContentHash |-> ch, SourcePath |-> sp]

CommitState(ch, sp, path, key, reqPrevState, reqNextState) ==
    LET prevState == IF key \in DOMAIN ch THEN ch[key] ELSE NoFile
        sp2 == [sp EXCEPT ![path] = key]
    IN  IF prevState # reqPrevState
        THEN [transitioned |-> FALSE, rErr |-> FALSE,
              ContentHash |-> ch, SourcePath |-> sp2]
        ELSE IF key = NilKey
        THEN [transitioned |-> FALSE, rErr |-> TRUE,
              ContentHash |-> ch, SourcePath |-> sp]
        ELSE [transitioned |-> TRUE, rErr |-> FALSE,
              ContentHash |-> [ch EXCEPT ![key] = reqNextState],
              SourcePath |-> sp2]

TimePath(time) == <<time.Year, time.Month>>

\* the first 8 hex digits of the key
KeyFragment(key) == key \div 16

Exists(tree, dest) == \E l \in tree : l.dest = dest

\* os.Link(result.Path, destPath), with the alternative path when destPath
\* exists: the link made, or failed when the alternative exists too
LinkNoFallback(tree, result) ==
    LET directory == TimePath(result.Time)
        destPath == [directory |-> directory, baseName |-> Base(result.Path)]
    IN  IF ~Exists(tree, destPath)
        THEN [err |-> FALSE, destPath |-> destPath]
        ELSE [err |-> TRUE, destPath |-> destPath]

Link(tree, result) ==
    LET baseName == Base(result.Path)
        directory == TimePath(result.Time)
        destPath == [directory |-> directory, baseName |-> baseName]
        altPath == [directory |-> directory,
                    keyFragment |-> KeyFragment(result.Key), baseName |-> baseName]
    IN  IF ~Exists(tree, destPath)
        THEN [err |-> FALSE, destPath |-> destPath]
        ELSE IF ~Exists(tree, altPath)
        THEN [err |-> FALSE, destPath |-> altPath]
        ELSE [err |-> TRUE, destPath |-> altPath]

\* the bucket setup transaction of main: the buckets and the ContentHash
\* table it leaves
DeleteBothBuckets(ch, sp, delete) ==
    [ContentHash |-> IF delete THEN [k \in Keys |-> NoFile] ELSE ch,
     SourcePath |-> IF delete THEN [p \in Paths |-> NilKey] ELSE sp]

CreateBuckets(ch, sp, delete) ==
    [ContentHash |-> IF delete THEN [k \in Keys |-> NoFile] ELSE ch,
     SourcePath |-> sp]

\* wg.Wait(): every hash worker has called wg.Done()
WaitAny(ws) == \E w \in BagToSet(ws) : w.pc = "exit"

Wait(ws) == \A w \in BagToSet(ws) : w.pc = "exit"

\* ---------------------------------------------------------------- Init
Init ==
    /\ pc = "idle"
    /\ fatal = ""
    /\ DeleteCopyState = FALSE
    /\ buckets = {}
    /\ ContentHash = [k \in Keys |-> NoFile]
    /\ SourcePath = [p \in Paths |-> NilKey]
    /\ outTree = {}
    /\ walk = <<>>
    /\ stampsClosed = FALSE
    /\ workers = IdleWorkers
    /\ err = FALSE
    /\ hashedClosed = FALSE
    /\ commit = IdleCommit
    /\ log = EmptyLog
    /\ created = [k \in Keys |-> 0]
    /\ startHash = [k \in Keys |-> NoFile]
    /\ walkErr = FALSE
    /\ prevClean = FALSE
    /\ emitted = EmptyBag
    /\ received = EmptyBag
    /\ hashed = EmptyBag
    /\ startCache = [p \in Paths |-> NilKey]
    /\ cas = NoCall

\* log.Fatalf / panic: the process exits where it stands
Fatal(msg) ==
    /\ pc' = "fatal"
    /\ fatal' = msg

\* ---------------------------------------------------------------- the process
\* the operator starts the tool, with or without --delete-copy-state
StartRun ==
    /\ UNCHANGED <<cas, startCache>>
    /\ emitted' = EmptyBag
    /\ received' = EmptyBag
    /\ hashed' = EmptyBag
    /\ pc \in {"idle", "done", "fatal", "killed"}
    /\ pc' = "init"
    /\ fatal' = ""
    /\ DeleteCopyState' \in BOOLEAN
    /\ walk' = <<>>
    /\ stampsClosed' = FALSE
    /\ workers' = IdleWorkers
    /\ err' = FALSE
    /\ hashedClosed' = FALSE
    /\ commit' = IdleCommit
    /\ log' = EmptyLog
    /\ walkErr' = FALSE
    /\ prevClean' = (pc = "done" /\ ~walkErr)
    /\ UNCHANGED <<buckets, ContentHash, SourcePath, outTree, created, startHash>>

\* main, "create our buckets": DeleteBucket of a bucket that does not exist
\* returns an error and main panics; otherwise both buckets exist afterwards
\* and the pipeline's goroutines start
Setup ==
    /\ UNCHANGED <<cas, emitted, received, hashed>>
    /\ pc = "init"
    /\ IF DeleteCopyState /\ "ContentHash" \notin buckets
       THEN /\ Fatal("panic: bucket not found")
            /\ UNCHANGED <<buckets, ContentHash, SourcePath, walk, startHash,
                           created, startCache>>
       ELSE LET r == CreateBuckets(ContentHash, SourcePath, DeleteCopyState)
            IN  /\ ContentHash' = r.ContentHash
                /\ SourcePath' = r.SourcePath
                /\ buckets' = {"ContentHash", "SourcePath"}
                /\ startHash' = r.ContentHash
                /\ startCache' = r.SourcePath
                /\ created' = IF DeleteCopyState THEN [k \in Keys |-> 0] ELSE created
                /\ walk' = << [path |-> input, i |-> 0] >>
                /\ pc' = "run"
                /\ UNCHANGED fatal
    /\ UNCHANGED <<DeleteCopyState, outTree, stampsClosed, workers, err,
                   hashedClosed, commit, log, walkErr, prevClean>>

\* the process is terminated from outside at any point of a run
Kill ==
    /\ UNCHANGED <<cas>>
    /\ emitted' = EmptyBag
    /\ received' = EmptyBag
    /\ hashed' = EmptyBag
    /\ startCache' = SourcePath
    /\ pc \in {"init", "run"}
    /\ pc' = "killed"
    /\ walk' = <<>>
    /\ stampsClosed' = FALSE
    /\ workers' = IdleWorkers
    /\ err' = FALSE
    /\ hashedClosed' = FALSE
    /\ commit' = IdleCommit
    /\ log' = EmptyLog
    /\ startHash' = ContentHash
    /\ walkErr' = FALSE
    /\ prevClean' = FALSE
    /\ DeleteCopyState' = FALSE
    /\ UNCHANGED <<fatal, buckets, ContentHash, SourcePath, outTree, created>>

\* ---------------------------------------------------------------- traversal
Top == walk[Len(walk)]
Entries == Tree[Top.path]
NewPath == Append(Top.path, Entries[Top.i].Name)

\* the WithFiles call on top of the stack returns (e: with an error).  The
\* outermost call returns to the traversal goroutine, which ends the run on
\* an error and closes stamps otherwise; an inner call returns to line 88,
\* where the caller goes on with its next entry.
WalkReturnNoClose(e) ==
    LET rest == SubSeq(walk, 1, Len(walk) - 1)
    IN  /\ walkErr' = (walkErr \/ e)
        /\ IF rest = <<>>
           THEN IF e
                THEN /\ Fatal("while traversing files")
                     /\ UNCHANGED <<walk, stampsClosed>>
                ELSE /\ walk' = <<>>
                     /\ UNCHANGED <<pc, fatal, stampsClosed>>
           ELSE /\ walk' = [rest EXCEPT ![Len(rest)].i = @ + 1]
                /\ UNCHANGED <<pc, fatal, stampsClosed>>

WalkReturn(e) ==
    LET rest == SubSeq(walk, 1, Len(walk) - 1)
    IN  /\ walkErr' = (walkErr \/ e)
        /\ IF rest = <<>>
           THEN IF e
                THEN /\ Fatal("while traversing files")
                     /\ UNCHANGED <<walk, stampsClosed>>
                ELSE /\ walk' = <<>>
                     /\ stampsClosed' = TRUE
                     /\ UNCHANGED <<pc, fatal>>
           ELSE /\ walk' = [rest EXCEPT ![Len(rest)].i = @ + 1]
                /\ UNCHANGED <<pc, fatal, stampsClosed>>

\* ioutil.ReadDir(path), which may fail
WalkReadDir ==
    /\ UNCHANGED <<cas, emitted, received, hashed, startCache>>
    /\ pc = "run" /\ walk # <<>> /\ Top.i = 0
    /\ \E ok \in BOOLEAN :
        IF ok
        THEN /\ walk' = [walk EXCEPT ![Len(walk)].i = 1]
             /\ UNCHANGED <<pc, fatal, stampsClosed, walkErr>>
        ELSE WalkReturn(TRUE)
    /\ UNCHANGED <<DeleteCopyState, buckets, ContentHash, SourcePath, outTree,
                   workers, err, hashedClosed, commit, log, created, startHash,
                   prevClean>>

\* file.IsDir(): the recursive call
WalkEnterDir ==
    /\ UNCHANGED <<cas, emitted, received, hashed, startCache>>
    /\ pc = "run" /\ walk # <<>> /\ Top.i \in 1..Len(Entries)
    /\ Entries[Top.i].IsDir
    /\ walk' = Append(walk, [path |-> NewPath, i |-> 0])
    /\ UNCHANGED <<pc, fatal, DeleteCopyState, buckets, ContentHash, SourcePath,
                   outTree, stampsClosed, workers, err, hashedClosed, commit, log,
                   created, startHash, walkErr, prevClean>>

\* the callback (printExif) on a file that is not accepted, or whose EXIF
\* data cannot be read or parsed
WalkCallback ==
    /\ UNCHANGED <<cas, emitted, received, hashed, startCache>>
    /\ pc = "run" /\ walk # <<>> /\ Top.i \in 1..Len(Entries)
    /\ ~Entries[Top.i].IsDir
    /\ IF ~ValidName(NewPath)
       THEN /\ walk' = [walk EXCEPT ![Len(walk)].i = @ + 1]
            /\ UNCHANGED <<pc, fatal, stampsClosed, walkErr>>
       ELSE WalkReturn(TRUE)
    /\ UNCHANGED <<DeleteCopyState, buckets, ContentHash, SourcePath, outTree,
                   workers, err, hashedClosed, commit, log, created, startHash,
                   prevClean>>

\* the callback on an accepted file: stamps <- FileStamp{name, date, source, nil},
\* received by hash worker w
WalkEmit(w) ==
    /\ UNCHANGED <<cas, received, hashed, startCache>>
    /\ pc = "run" /\ walk # <<>> /\ Top.i \in 1..Len(Entries)
    /\ ~Entries[Top.i].IsDir
    /\ ValidName(NewPath)
    /\ w.pc = "recv"
    /\ workers' = Move(w, [pc |-> "hash",
            stamp |-> [Path |-> NewPath, Time |-> DateOf[NewPath], Key |-> NilKey]])
    /\ emitted' = emitted (+) SetToBag({NewPath})
    /\ walk' = [walk EXCEPT ![Len(walk)].i = @ + 1]
    /\ UNCHANGED <<pc, fatal, DeleteCopyState, buckets, ContentHash, SourcePath,
                   outTree, stampsClosed, err, hashedClosed, commit, log,
                   created, startHash, walkErr, prevClean>>

\* the loop over the entries is over: return nil
WalkEnd ==
    /\ UNCHANGED <<cas, emitted, received, hashed, startCache>>
    /\ pc = "run" /\ walk # <<>> /\ Top.i > Len(Entries)
    /\ WalkReturn(FALSE)
    /\ UNCHANGED <<DeleteCopyState, buckets, ContentHash, SourcePath, outTree,
                   workers, err, hashedClosed, commit, log, created, startHash,
                   prevClean>>

\* ---------------------------------------------------------------- hash workers
\* stamp.Key, err = FileKey(db, stamp.Path): err is main's variable
WorkerHash(w) ==
    /\ UNCHANGED <<cas, emitted, received, startCache>>
    /\ pc = "run" /\ w.pc = "hash"
    /\ \E openOk \in BOOLEAN :
        LET r == FileKey(SourcePath, w.stamp.Path, openOk)
        IN  /\ workers' = Move(w, [pc |-> "check", stamp |-> [w.stamp EXCEPT !.Key = r.Key]])
            /\ err' = r.err
            /\ hashed' = IF r.hashed THEN hashed (+) SetToBag({w.stamp.Path})
                                      ELSE hashed
    /\ UNCHANGED <<pc, fatal, DeleteCopyState, buckets, ContentHash, SourcePath,
                   outTree, walk, stampsClosed, hashedClosed, commit, log,
                   created, startHash, walkErr, prevClean>>

\* if err != nil { log.Fatalf }, else on to the send
WorkerCheck(w) ==
    /\ UNCHANGED <<cas, emitted, received, hashed, startCache>>
    /\ pc = "run" /\ w.pc = "check"
    /\ IF err
       THEN /\ Fatal("while hashing files")
            /\ UNCHANGED workers
       ELSE /\ workers' = Move(w, [w EXCEPT !.pc = "send"])
            /\ UNCHANGED <<pc, fatal>>
    /\ UNCHANGED <<DeleteCopyState, buckets, ContentHash, SourcePath, outTree,
                   walk, stampsClosed, err, hashedClosed, commit, log, created,
                   startHash, walkErr, prevClean>>

\* range stamps ends on the closed channel: wg.Done()
WorkerExit(w) ==
    /\ UNCHANGED <<cas, emitted, received, hashed, startCache>>
    /\ pc = "run" /\ w.pc = "recv" /\ stampsClosed
    /\ workers' = Move(w, [w EXCEPT !.pc = "exit"])
    /\ UNCHANGED <<pc, fatal, DeleteCopyState, buckets, ContentHash, SourcePath,
                   outTree, walk, stampsClosed, err, hashedClosed, commit, log,
                   created, startHash, walkErr, prevClean>>

\* wg.Wait(); close(hashedStamps)
CloseHashed ==
    /\ UNCHANGED <<cas, emitted, received, hashed, startCache>>
    /\ pc = "run" /\ ~hashedClosed
    /\ Wait(workers)
    /\ hashedClosed' = TRUE
    /\ UNCHANGED <<pc, fatal, DeleteCopyState, buckets, ContentHash, SourcePath,
                   outTree, walk, stampsClosed, workers, err, commit, log,
                   created, startHash, walkErr, prevClean>>

\* ---------------------------------------------------------------- commit
\* main receives worker w's stamp from hashedStamps and makes the first
\* transition, NoFile -> DiscoveredFile
CommitReceive(w) ==
    /\ UNCHANGED <<cas, emitted, hashed, startCache>>
    /\ pc = "run" /\ commit.pc = "recv" /\ w.pc = "send"
    /\ LET result == w.stamp
           r == CommitState(ContentHash, SourcePath, result.Path, result.Key,
                            NoFile, DiscoveredFile)
       IN  /\ workers' = Move(w, IdleWorker)
           /\ received' = received (+) SetToBag({result.Path})
           /\ IF r.rErr
              THEN /\ Fatal("while recording file")
                   /\ commit' = [pc |-> "recv", result |-> result, transitioned |-> FALSE]
                   /\ UNCHANGED <<ContentHash, SourcePath, log>>
              ELSE /\ ContentHash' = r.ContentHash
                   /\ SourcePath' = r.SourcePath
                   /\ UNCHANGED <<pc, fatal>>
                   /\ IF r.transitioned
                      THEN /\ commit' = [pc |-> "link", result |-> result,
                                         transitioned |-> TRUE]
                           /\ UNCHANGED log
                      ELSE /\ commit' = [pc |-> "recv", result |-> result,
                                         transitioned |-> FALSE]
                           /\ log' = [log EXCEPT !.skipped = @ \cup {result.Path}]
    /\ UNCHANGED <<DeleteCopyState, buckets, outTree, walk, stampsClosed, err,
                   hashedClosed, created, startHash, walkErr, prevClean>>

\* EnsureDir and os.Link, with the alternative path
CommitLink ==
    /\ UNCHANGED <<cas, emitted, received, hashed, startCache>>
    /\ pc = "run" /\ commit.pc = "link"
    /\ LET l == Link(outTree, commit.result)
       IN  IF l.err
           THEN /\ Fatal("while linking")
                /\ UNCHANGED <<outTree, created, commit>>
           ELSE /\ outTree' = outTree \cup
                        {[dest |-> l.destPath, src |-> commit.result.Path,
                          key |-> commit.result.Key]}
                /\ created' = [created EXCEPT ![commit.result.Key] = @ + 1]
                /\ commit' = [commit EXCEPT !.pc = "state"]
                /\ UNCHANGED <<pc, fatal>>
    /\ UNCHANGED <<DeleteCopyState, buckets, ContentHash, SourcePath, walk,
                   stampsClosed, workers, err, hashedClosed, log, startHash,
                   walkErr, prevClean>>

\* the second transition, DiscoveredFile -> CopiedFile, whose result is
\* dropped, and the "finished" line
CommitFinish ==
    /\ UNCHANGED <<cas, emitted, received, hashed, startCache>>
    /\ pc = "run" /\ commit.pc = "state"
    /\ LET result == commit.result
           r == CommitState(ContentHash, SourcePath, result.Path, result.Key,
                            DiscoveredFile, CopiedFile)
       IN  IF r.rErr
           THEN /\ Fatal("while commiting file")
                /\ UNCHANGED <<ContentHash, SourcePath, log, commit>>
           ELSE /\ ContentHash' = r.ContentHash
                /\ SourcePath' = r.SourcePath
                /\ log' = [log EXCEPT !.finished = @ \cup {result.Path}]
                /\ commit' = [commit EXCEPT !.pc = "recv"]
                /\ UNCHANGED <<pc, fatal>>
    /\ UNCHANGED <<DeleteCopyState, buckets, outTree, walk, stampsClosed, workers,
                   err, hashedClosed, created, startHash, walkErr, prevClean>>

\* range hashedStamps ends on the closed channel and main returns
CommitEnd ==
    /\ UNCHANGED <<cas, emitted, received, hashed, startCache>>
    /\ pc = "run" /\ commit.pc = "recv" /\ hashedClosed
    /\ pc' = "done"
    /\ UNCHANGED <<fatal, DeleteCopyState, buckets, ContentHash, SourcePath,
                   outTree, walk, stampsClosed, workers, err, hashedClosed,
                   commit, log, created, startHash, walkErr, prevClean>>

Next ==
    \/ StartRun
    \/ Setup
    \/ Kill
    \/ WalkReadDir
    \/ WalkEnterDir
    \/ WalkCallback
    \/ \E w \in BagToSet(workers) : WalkEmit(w)
    \/ WalkEnd
    \/ \E w \in BagToSet(workers) : WorkerHash(w)
    \/ \E w \in BagToSet(workers) : WorkerCheck(w)
    \/ \E w \in BagToSet(workers) : WorkerExit(w)
    \/ CloseHashed
    \/ \E w \in BagToSet(workers) : CommitReceive(w)
    \/ CommitLink
    \/ CommitFinish
    \/ CommitEnd

Spec == Init /\ [][Next]_vars

\* a step of one of the goroutines of a run (traversal, hash workers,
\* closer, main's loop)
Step ==
    \/ WalkReadDir
    \/ WalkEnterDir
    \/ WalkCallback
    \/ \E w \in BagToSet(workers) : WalkEmit(w)
    \/ WalkEnd
    \/ \E w \in BagToSet(workers) : WorkerHash(w)
    \/ \E w \in BagToSet(workers) : WorkerCheck(w)
    \/ \E w \in BagToSet(workers) : WorkerExit(w)
    \/ CloseHashed
    \/ \E w \in BagToSet(workers) : CommitReceive(w)
    \/ CommitLink
    \/ CommitFinish
    \/ CommitEnd

\* the Go scheduler runs a goroutine that can take a step
SpecFair == Spec /\ WF_vars(Step)

\* ---------------------------------------------------------------- CommitState alone
\* CommitState called once on any store, with any path, key and pair of
\* states
InitCAS ==
    /\ pc = "call"
    /\ fatal = ""
    /\ DeleteCopyState = FALSE
    /\ buckets = {"ContentHash", "SourcePath"}
    /\ ContentHash \in [Keys -> States]
    /\ SourcePath = [p \in Paths |-> NilKey]
    /\ outTree = {}
    /\ walk = <<>>
    /\ stampsClosed = FALSE
    /\ workers = IdleWorkers
    /\ err = FALSE
    /\ hashedClosed = FALSE
    /\ commit = IdleCommit
    /\ log = EmptyLog
    /\ created = [k \in Keys |-> 0]
    /\ startHash = ContentHash
    /\ walkErr = FALSE
    /\ prevClean = FALSE
    /\ emitted = EmptyBag
    /\ received = EmptyBag
    /\ hashed = EmptyBag
    /\ startCache = SourcePath
    /\ cas \in [called : {FALSE}, path : Paths, key : Keys \cup {NilKey},
                reqPrevState : States, reqNextState : States]

ApplyCAS ==
    /\ pc = "call" /\ ~cas.called
    /\ LET r == CommitState(ContentHash, SourcePath, cas.path, cas.key,
                            cas.reqPrevState, cas.reqNextState)
       IN  /\ ContentHash' = r.ContentHash
           /\ SourcePath' = r.SourcePath
           /\ cas' = [called |-> TRUE, path |-> cas.path, key |-> cas.key,
                      reqPrevState |-> cas.reqPrevState,
                      reqNextState |-> cas.reqNextState,
                      before |-> ContentHash, transitioned |-> r.transitioned,
                      rErr |-> r.rErr]
    /\ UNCHANGED <<pc, fatal, DeleteCopyState, buckets, outTree, walk,
                   stampsClosed, workers, err, hashedClosed, commit, log,
                   created, startHash, walkErr, prevClean, emitted,
                   received, hashed, startCache>>

NextCAS == ApplyCAS

SpecCAS == InitCAS /\ [][NextCAS]_vars

\* ---------------------------------------------------------------- properties
TypeOK ==
    /\ pc \in {"idle", "init", "run", "done", "fatal", "killed"}
    /\ DeleteCopyState \in BOOLEAN
    /\ buckets \in {{}, {"ContentHash", "SourcePath"}}
    /\ ContentHash \in [Keys -> States]
    /\ SourcePath \in [Paths -> Keys \cup {NilKey}]
    /\ IsABag(workers) /\ BagCardinality(workers) = HashWorkers
    /\ \A w \in BagToSet(workers) :
          w.pc \in {"recv", "hash", "check", "send", "exit"}
    /\ commit.pc \in {"recv", "link", "state"}
    /\ err \in BOOLEAN /\ stampsClosed \in BOOLEAN /\ hashedClosed \in BOOLEAN

\* the links of the output tree that carry content k
LinksOf(k) == {l \in outTree : l.key = k}

\* the paths of the input tree that traversal accepts
Accepted == {p \in Paths : ValidName(p)}

PlainDest(p) == [directory |-> TimePath(DateOf[p]), baseName |-> Base(p)]
AltDest(p) ==
    [directory |-> TimePath(DateOf[p]), keyFragment |-> KeyFragment(Content[p]),
     baseName |-> Base(p)]

\* C1: since the last placement reset, whatever runs were made, aborted and
\* restarted and however the workers interleaved, at most one link has been
\* created for each content key.
AtMostOncePlacement == \A k \in Keys : created[k] <= 1

\* a later run has met, and skipped, content that an earlier run linked
AtMostOnceWitness ==
    /\ pc = "done" /\ ~DeleteCopyState
    /\ startHash[17] = CopiedFile
    /\ created[17] = 1
    /\ <<"in", "a.jpg">> \in log.skipped

\* C2: when a run has ended normally and its commit stage received two
\* files of identical content whose key was absent when the run began, one of
\* the two was linked (and logged finished) and the other was logged as
\* skipped, whichever of them was delivered first.
DedupCorrectness ==
    pc = "done" =>
        \A p, q \in Paths :
            ( /\ p # q /\ Content[p] = Content[q]
              /\ startHash[Content[p]] = NoFile
              /\ {p, q} \subseteq log.skipped \cup log.finished )
            => /\ created[Content[p]] = 1
               /\ \/ /\ p \in log.finished /\ q \in log.skipped
                     /\ p \notin log.skipped /\ q \notin log.finished
                     /\ \E l \in outTree : l.src = p
                  \/ /\ q \in log.finished /\ p \in log.skipped
                     /\ q \notin log.skipped /\ p \notin log.finished
                     /\ \E l \in outTree : l.src = q

\* the copy met later by traversal was delivered first and linked
DedupWitness ==
    /\ pc = "done"
    /\ startHash[17] = NoFile
    /\ <<"in", "sub", "b.JPG">> \in log.finished
    /\ <<"in", "a.jpg">> \in log.skipped

\* C3: (the claim) a run without reset that ends normally after a complete
\* traversal leaves every key it found Discovered in state Copied, with
\* exactly one link for it in the output tree.
CrashRecovery ==
    (pc = "done" /\ ~DeleteCopyState /\ ~walkErr) =>
        \A p \in Accepted :
            startHash[Content[p]] = DiscoveredFile
            => /\ ContentHash[Content[p]] = CopiedFile
               /\ Cardinality(LinksOf(Content[p])) = 1

\* C4: (the claim) in the run that follows a run ended normally with no
\* error, made without reset, nothing is linked, no "finished" line is
\* logged, and every item skipped has a key in state Copied.
Idempotence ==
    (pc \in {"run", "done"} /\ prevClean /\ ~DeleteCopyState) =>
        /\ commit.pc = "recv"
        /\ log.finished = {}
        /\ \A p \in log.skipped : ContentHash[Content[p]] = CopiedFile

\* C4, the part of the claim that does hold: no link and no "finished" line
IdempotenceNoLink ==
    (pc \in {"run", "done"} /\ prevClean /\ ~DeleteCopyState) =>
        /\ commit.pc = "recv"
        /\ log.finished = {}

\* C5: CommitState on key k with expected state X and new state Y returns
\* true exactly when the stored state of k equals X, and then the store is
\* the one before with k at Y; otherwise it returns false and the placement
\* state of every key is as before.
CompareAndTransition ==
    (cas.called /\ cas.key \in Keys) =>
        /\ cas.transitioned = (cas.before[cas.key] = cas.reqPrevState)
        /\ cas.transitioned =>
              ContentHash = [cas.before EXCEPT ![cas.key] = cas.reqNextState]
        /\ ~cas.transitioned => ContentHash = cas.before

\* a call that expected Discovered on a key stored as Copied, and was refused
CompareAndTransitionWitness ==
    /\ cas.called /\ cas.key \in Keys
    /\ cas.reqPrevState = DiscoveredFile
    /\ cas.before[cas.key] = CopiedFile
    /\ ~cas.transitioned

\* C6: every step of a run made without the reset option leaves each key's
\* placement state as it is or advances it NoFile -> Discovered or
\* Discovered -> Copied.
MonotonicLifecycle ==
    [][ ~DeleteCopyState =>
          \A k \in Keys :
              \/ ContentHash'[k] = ContentHash[k]
              \/ ContentHash[k] = NoFile /\ ContentHash'[k] = DiscoveredFile
              \/ ContentHash[k] = DiscoveredFile /\ ContentHash'[k] = CopiedFile ]_vars

\* a run without reset took a key from absent to Copied and later skipped
\* a file of that content
MonotonicWitness ==
    /\ pc = "run" /\ ~DeleteCopyState
    /\ \E p \in log.skipped :
          startHash[Content[p]] = NoFile /\ ContentHash[Content[p]] = CopiedFile

ResetFrame ==
    [][ (pc = "init" /\ DeleteCopyState /\ pc' \in {"run", "fatal"}) =>
          /\ \A k \in Keys : ContentHash'[k] = NoFile
          /\ SourcePath' = SourcePath ]_vars

\* a reset run past its setup, over a store that had placed and cached files
ResetWitness ==
    /\ pc = "run" /\ DeleteCopyState
    /\ outTree # {}
    /\ \A k \in Keys : ContentHash[k] = NoFile
    /\ \A p \in Accepted : SourcePath[p] = Content[p]

\* C9: (the claim) a run started with the reset option right after a run
\* that ended normally does not end with a fatal error while linking.
ResetRelink ==
    (DeleteCopyState /\ prevClean) => ~(pc = "fatal" /\ fatal = "while linking")

\* C10: (the claim) a run whose traversal met a ReadDir failure or a
\* callback error does not end normally.
TraversalStrictFailure == pc = "done" => ~walkErr

\* the paths the commit stage has handled in this run
Handled ==
    log.skipped \cup log.finished
    \cup (IF commit.pc \in {"link", "state"} THEN {commit.result.Path} ELSE {})

\* bag of the paths of the stamps the hash workers hold
Held ==
    LET busy == {w \in BagToSet(workers) : w.pc \in {"hash", "check", "send"}}
        ps == {w.stamp.Path : w \in busy}
    IN  [p \in ps |->
            LET ws == {w \in busy : w.stamp.Path = p}
                Sum[S \in SUBSET ws] ==
                    IF S = {} THEN 0
                    ELSE LET x == CHOOSE x \in S : TRUE
                         IN  workers[x] + Sum[S \ {x}]
            IN  Sum[ws]]

\* the steps WithFiles(path, callback) takes when nothing fails: ReadDir,
\* one per file, one more per directory entered, and the return
RECURSIVE DirSteps(_)
EntrySteps(path, e) ==
    IF e.IsDir THEN 1 + DirSteps(Append(path, e.Name)) ELSE 1

RECURSIVE EntriesSteps(_, _)
EntriesSteps(path, from) ==
    IF from > Len(Tree[path]) THEN 0
    ELSE EntrySteps(path, Tree[path][from]) + EntriesSteps(path, from + 1)

DirSteps(path) == 2 + EntriesSteps(path, 1)

\* the steps the traversal has left at most: the frame on top is at its
\* entry i, the frames below it are inside theirs
RECURSIVE WalkLeft(_)
WalkLeft(stack) ==
    IF stack = <<>> THEN 0
    ELSE LET n == Len(stack)
             f == stack[n]
             rest == SubSeq(stack, 1, n - 1)
             below == IF rest = <<>> THEN 0
                      ELSE LET g == rest[n - 1]
                           IN  WalkLeft(rest) - EntrySteps(g.path, Tree[g.path][g.i])
         IN  below + (IF f.i = 0 THEN DirSteps(f.path)
                      ELSE 1 + EntriesSteps(f.path, f.i))

\* the steps a run has left at most: what the traversal has left (each step
\* of it may hand a stamp to a worker), what each worker has left with the
\* stamp it holds, what main has left with its item, and the close
StepsLeft ==
    LET stage == [recv |-> 1, hash |-> 6, check |-> 5, send |-> 4, exit |-> 0]
        loop == [recv |-> 0, link |-> 2, state |-> 1]
        ws == BagToSet(workers)
        Sum[S \in SUBSET ws] ==
            IF S = {} THEN 0
            ELSE LET x == CHOOSE x \in S : TRUE
                 IN  stage[x.pc] * workers[x] + Sum[S \ {x}]
    IN  10 * WalkLeft(walk) + Sum[ws] + loop[commit.pc]
        + (IF hashedClosed THEN 0 ELSE 1) + 1

\* C11: while a run goes on, every path traversal emitted is held by one
\* worker or has been received once by main, and some goroutine can take a
\* step (no deadlock); every step of a run brings it nearer to its end, so
\* with goroutines that are scheduled the run ends; a run that ended
\* normally closed both channels and handled every emitted path exactly
\* once.
DrainAndTermination ==
    /\ [](pc = "run" =>
            /\ emitted = Held (+) received
            /\ \A p \in BagToSet(emitted) : emitted[p] = 1
            /\ StepsLeft > 0
            /\ ENABLED Step)
    /\ [](pc = "done" =>
            /\ stampsClosed /\ hashedClosed
            /\ received = emitted
            /\ BagToSet(received) = log.skipped \cup log.finished
            /\ log.skipped \cap log.finished = {})
    /\ [][(pc = "run" /\ pc' = "run") => StepsLeft' < StepsLeft]_vars

\* C11, termination stated directly: under fair scheduling every run ends
RunEnds == (pc = "run") ~> (pc \in {"done", "fatal", "killed"})

\* a run that traversed the whole tree ended normally
DrainWitness ==
    /\ pc = "done" /\ ~walkErr
    /\ BagToSet(received) = Accepted

\* ---------------------------------------------------------------- the second transition alone
\* main's loop at its second CommitState call for an item it has linked, on
\* a store that holds any state for each key (the store is a file that main
\* does not own alone)
StampOf(p) ==
    [Path |-> p, Time |-> DateOf[p], Key |-> Content[p]]

InitFinish ==
    /\ pc = "run"
    /\ fatal = ""
    /\ DeleteCopyState = FALSE
    /\ buckets = {"ContentHash", "SourcePath"}
    /\ ContentHash \in [Keys -> States]
    /\ \E p \in Accepted :
        /\ commit = [pc |-> "state", result |-> StampOf(p), transitioned |-> TRUE]
        /\ SourcePath = [q \in Paths |-> IF q = p THEN Content[p] ELSE NilKey]
        /\ outTree = {[dest |-> PlainDest(p), src |-> p, key |-> Content[p]]}
        /\ created = [k \in Keys |-> IF k = Content[p] THEN 1 ELSE 0]
        /\ emitted = SetToBag({p})
        /\ received = SetToBag({p})
        /\ hashed = SetToBag({p})
    /\ walk = <<>>
    /\ stampsClosed = TRUE
    /\ workers = IdleWorkers
    /\ err = FALSE
    /\ hashedClosed = FALSE
    /\ log = EmptyLog
    /\ startHash = [k \in Keys |-> NoFile]
    /\ walkErr = FALSE
    /\ prevClean = FALSE
    /\ startCache = [q \in Paths |-> NilKey]
    /\ cas = NoCall

NextFinish == CommitFinish

SpecFinish == InitFinish /\ [][NextFinish]_vars

\* C12: when the second transition (Discovered -> Copied) of a linked item
\* finds its key in another state than Discovered, and so returns false, the
\* run ends with a fatal error and the item is not logged as finished.
SecondTransitionFatal ==
    [][(/\ pc = "run" /\ commit.pc = "state"
        /\ ContentHash[commit.result.Key] # DiscoveredFile)
       => /\ pc' = "fatal"
          /\ log'.finished = log.finished]_vars

\* C13: in every run, from the moment main won the first transition for an
\* item until it attempts the second, the item's key is stored as
\* Discovered, so the second transition finds the state it expects and
\* succeeds; every item logged as finished has its key stored as Copied.
SecondTransitionSucceeds ==
    /\ (pc = "run" /\ commit.pc \in {"link", "state"}) =>
            /\ commit.transitioned
            /\ commit.result.Key # NilKey
            /\ ContentHash[commit.result.Key] = DiscoveredFile
            /\ CommitState(ContentHash, SourcePath, commit.result.Path,
                           commit.result.Key, DiscoveredFile,
                           CopiedFile).transitioned
    /\ \A p \in log.finished : ContentHash[Content[p]] = CopiedFile

SecondTransitionWitness ==
    /\ pc = "run"
    /\ commit.pc = "state"
    /\ log.finished # {}
    /\ \E w \in BagToSet(workers) :
            w.pc = "send" /\ w.stamp.Key = commit.result.Key

\* C14, as stated: a hash worker that holds a digested item to send, for a
\* path the cache did not have when the run started, finds path -> key
\* already stored in SourcePath.
DigestPersistsOnMiss ==
    \A w \in BagToSet(workers) :
        (/\ pc = "run" /\ w.pc = "send"
         /\ w.stamp.Key # NilKey
         /\ startCache[w.stamp.Path] = NilKey)
        => SourcePath[w.stamp.Path] = w.stamp.Key

\* C14, amended: the entry path -> key is stored by main's loop, in the
\* transaction of the item's first transition: every path main has taken up
\* is cached with the digest of its content, and during a run the cache
\* differs from what the run started with only at such paths (so an item
\* that was digested and not yet received by main is not cached, and is
\* digested again by a run that follows a termination).
CachePersistedAtCommit ==
    pc \in {"run", "done", "fatal"} =>
        /\ \A p \in Handled : SourcePath[p] = Content[p]
        /\ \A p \in Paths : SourcePath[p] # startCache[p] => p \in Handled

CachePersistedWitness ==
    /\ pc = "run"
    /\ Handled # {}
    /\ \E w \in BagToSet(workers) :
        /\ w.pc = "send"
        /\ w.stamp.Key # NilKey
        /\ hashed[w.stamp.Path] = 1
        /\ SourcePath[w.stamp.Path] = NilKey

\* C15: in every run, with or without the placement reset, a path that the
\* path cache held when the run started is never opened and digested, and
\* the worker's item carries the cached key; each other path is digested at
\* most once, so a run that ended normally made as many digest computations
\* as it had paths through the digest stage that the cache did not hold
\* (all accepted paths of the input, when traversal met no failure).
CacheHitAvoidsHashing ==
    pc \in {"run", "done", "fatal"} =>
        /\ \A p \in BagToSet(hashed) : startCache[p] = NilKey /\ hashed[p] = 1
        /\ \A w \in BagToSet(workers) :
                (w.pc \in {"check", "send"} /\ startCache[w.stamp.Path] # NilKey)
                => w.stamp.Key = startCache[w.stamp.Path]
        /\ pc = "done" =>
                /\ BagCardinality(hashed) =
                        Cardinality({p \in BagToSet(emitted) : startCache[p] = NilKey})
                /\ ~walkErr =>
                        BagCardinality(hashed) =
                            Cardinality({p \in Accepted : startCache[p] = NilKey})

CacheHitWitness ==
    /\ pc = "done"
    /\ ~walkErr
    /\ DeleteCopyState
    /\ hashed # EmptyBag
    /\ \E p \in Accepted : startCache[p] # NilKey

\* C16: once SourcePath maps a path to a key, every later state maps the
\* path to the same key, whatever runs, terminations, fatal errors and
\* placement resets follow: no step removes or changes an entry.
PathCacheAdditive ==
    [][\A p \in Paths :
            SourcePath[p] # NilKey => SourcePath'[p] = SourcePath[p]]_vars

\* a run with the placement reset has ended and the entries an earlier run
\* stored are all still there
PathCacheWitness ==
    /\ pc = "done"
    /\ DeleteCopyState
    /\ \A k \in Keys : ContentHash[k] # NoFile => startHash[k] = NoFile
    /\ \A p \in Accepted : startCache[p] = Content[p] /\ SourcePath[p] = Content[p]

\* C17: hashedStamps is closed only when stamps has been closed and every
\* hash worker has left its loop, so no worker holds an item or is about to
\* send when the channel is closed, and main sees the end of the stream
\* only when no worker holds an item.
EndOfStreamOrdering ==
    /\ hashedClosed =>
            /\ stampsClosed
            /\ \A w \in BagToSet(workers) : w.pc = "exit"
            /\ Held = EmptyBag
    /\ \A w \in BagToSet(workers) : w.pc = "exit" => stampsClosed
    /\ pc = "done" => hashedClosed

EndOfStreamWitness ==
    /\ pc = "run"
    /\ hashedClosed
    /\ commit.pc = "recv"
    /\ BagCardinality(received) >= 2

\* C18: however the hash workers interleave, a worker whose own FileKey
\* call failed (it holds an item with no key) does not get past its error
\* check to the send, and every item main received carries a key.
DigestFailureIsolation ==
    /\ \A w \in BagToSet(workers) : w.pc = "send" => w.stamp.Key # NilKey
    /\ \A p \in BagToSet(received) : commit.result.Path = p =>
            commit.result.Key # NilKey

\* C19: across runs, fatal errors and terminations, a key stored as Copied
\* has a link for its content in the output tree; and as long as no
\* placement reset has been made (every link in the tree was made since the
\* table was last empty), only a key stored as Discovered or Copied has a
\* link.
CopiedImpliesLinked ==
    /\ \A k \in Keys : ContentHash[k] = CopiedFile => LinksOf(k) # {}
    /\ (\A k \in Keys : Cardinality(LinksOf(k)) = created[k]) =>
            \A k \in Keys :
                LinksOf(k) # {} => ContentHash[k] \in {DiscoveredFile, CopiedFile}

\* a run was terminated between a link and the second transition
CopiedLinkedWitness ==
    /\ pc = "killed"
    /\ \A k \in Keys : Cardinality(LinksOf(k)) = created[k]
    /\ \E k \in Keys : ContentHash[k] = CopiedFile /\ LinksOf(k) # {}
    /\ \E k \in Keys : ContentHash[k] = DiscoveredFile /\ LinksOf(k) # {}

\* C20: a run started with the placement reset, also on a store that has no
\* ContentHash bucket yet, gets through its bucket setup: once it is past
\* the setup (running, ended or failed) both buckets exist, and it started
\* its work with an empty ContentHash table.
ResetOnFirstUse ==
    (DeleteCopyState /\ pc \in {"run", "done", "fatal"}) =>
        /\ buckets = {"ContentHash", "SourcePath"}
        /\ startHash = [k \in Keys |-> NoFile]

====
